---- MODULE Spec2Model ----
(***************************************************************************)
(* Road-network synthesis of game/transport/transport_planning_new/mod.rs: *)
(* calculate_prototypes, from the smoothed gesture paths to the returned   *)
(* list of intersection and lane prototypes.                               *)
(*                                                                         *)
(* Geometry is abstracted to what the code reads from the geometry        *)
(* library: distances along a raw lane path are integers, a region of the  *)
(* clipper is an identifier, and the results of intersect() and contains() *)
(* for a (lane path, intersection shape) pair are inputs of the run.       *)
(***************************************************************************)
EXTENDS Integers, Sequences, FiniteSets, TLC

\* Largest number of road gestures in a plan.
MaxGestures == 2
\* Length of the raw lane path that the lane trimmer is run on in TrimSpec.
MaxLen == 3
\* Largest number of intersection prototypes the lane trimmer meets in TrimSpec.
MaxInters == 3

\* Largest number of points of a gesture in SmoothSpec.
MaxPoints == 3
\* Gesture points have integer coordinates in 0..GridMax.
GridMax == 2

\* n_lanes_forward / n_lanes_backward of a RoadIntent (u8 in the source).
LaneCounts == {0, 1}
\* Placements of the overlap regions along the lanes in a plan:
\* 0 = crossed in the interior, 1 = entered at the lane's first point,
\* 2 = the lane starts inside the first region.
Layouts == {0, 1, 2}

VARIABLES
    intents,                  \* gesture_intent_smooth_paths: the RoadIntent of each smoothed gesture
    overlap,                  \* the regions <<i, j>>, i < j, in which outlines i and j overlap
    clip_err,                 \* ordered pairs on which clipper::clip returns Err
    shift_fail,               \* lane offsets for which shift_orthogonally returns None
    lane_length,              \* raw_lane_path.length() of each raw lane path
    crossing,                 \* per <<lane, shape>>: intersect() distances and contains(start/end)
    pc,                       \* position in calculate_prototypes
    gesture_shapes,           \* the road outlines, one per smoothed gesture
    i_a, i_b,                 \* position in the cartesian product of the outlines
    clipped,                  \* the ordered pairs clipper::clip was called on, in order
    intersection_prototypes,  \* Vec of IntersectionPrototype
    raw_lane_paths,           \* the raw lane paths, in order
    lane_i,                   \* index of the raw lane path being trimmed
    inter_i,                  \* index of the intersection being visited
    start_trim, end_trim, cuts,
    lane_prototypes,          \* the lane prototypes emitted so far
    result,                   \* the returned Vec<Prototype>
    points,                   \* gesture.points of the gesture being smoothed
    center_points,            \* the midpoints of the consecutive point pairs, doubled
    end_start_directions      \* (end, start, line_direction) per line segment

vars == <<intents, overlap, clip_err, shift_fail, lane_length, crossing, pc,
          gesture_shapes, i_a, i_b, clipped, intersection_prototypes,
          raw_lane_paths, lane_i, inter_i, start_trim, end_trim, cuts,
          lane_prototypes, result, points, center_points, end_start_directions>>

smoother == <<points, center_points, end_start_directions>>

planner == <<intents, overlap, clip_err, shift_fail, lane_length, crossing,
             gesture_shapes, i_a, i_b, clipped, intersection_prototypes,
             raw_lane_paths, lane_i, inter_i, start_trim, end_trim, cuts,
             lane_prototypes, result>>

inputs == <<intents, overlap, clip_err, shift_fail, lane_length, crossing>>

----------------------------------------------------------------------------
(* Helpers on sets and sequences *)

MinOf(S) == CHOOSE x \in S : \A y \in S : x <= y

MaxOf(S) == CHOOSE x \in S : \A y \in S : x >= y

RECURSIVE Flatten(_)
Flatten(ss) == IF ss = <<>> THEN <<>> ELSE Head(ss) \o Flatten(Tail(ss))

N == Len(intents)

----------------------------------------------------------------------------
(* Intersection detector, lines 156-186 *)

None == [some |-> FALSE]

Some(v) == [some |-> TRUE, value |-> v]

\* The identifier of the region in which outlines i and j overlap.
ShapeOf(i, j) == IF i <= j THEN <<i, j>> ELSE <<j, i>>

\* clipper::clip(Mode::Intersection, shape_a, shape_b): Err, or the regions.
\* An outline clipped with itself is the outline.
Clip(a, b) ==
    IF <<a, b>> \in clip_err THEN [ok |-> FALSE]
    ELSE [ok |-> TRUE,
          shapes |-> IF a = b \/ ShapeOf(a, b) \in overlap THEN <<ShapeOf(a, b)>> ELSE <<>>]

\* ClipResult without the test i_a == i_b: an outline is clipped with itself too.
ClipResultSelfPairs(a, b) ==
    LET r == Clip(a, b) IN IF r.ok THEN r.shapes ELSE <<>>

\* The closure of flat_map, lines 160-174.
ClipResult(a, b) ==
    IF a = b THEN <<>>
    ELSE LET r == Clip(a, b) IN IF r.ok THEN r.shapes ELSE <<>>

\* Lines 176-186.
NewIntersection(shape) ==
    [shape |-> shape, incoming |-> <<>>, outgoing |-> <<>>,
     connecting_lanes |-> <<>>, timings |-> <<>>]

RECURSIVE NewIntersections(_)
NewIntersections(shapes) ==
    IF shapes = <<>> THEN <<>>
    ELSE <<NewIntersection(Head(shapes))>> \o NewIntersections(Tail(shapes))

----------------------------------------------------------------------------
(* Raw lane paths, lines 189-204 *)

\* The offsets of one gesture, forward lanes first.
LaneOffsets(g, intent) ==
    [k \in 1..intent.n_lanes_forward |-> <<g, "forward", k - 1>>]
    \o [k \in 1..intent.n_lanes_backward |-> <<g, "backward", k - 1>>]

\* ShiftAll that stops at the first failed shift (a take_while instead of a filter_map).
RECURSIVE ShiftUntilFailure(_)
ShiftUntilFailure(offsets) ==
    IF offsets = <<>> \/ Head(offsets) \in shift_fail THEN <<>>
    ELSE <<Head(offsets)>> \o ShiftUntilFailure(Tail(offsets))

\* filter_map(|offset| path.shift_orthogonally(offset))
RECURSIVE ShiftAll(_)
ShiftAll(offsets) ==
    IF offsets = <<>> THEN <<>>
    ELSE (IF Head(offsets) \in shift_fail THEN <<>> ELSE <<Head(offsets)>>)
         \o ShiftAll(Tail(offsets))

RawLanePaths ==
    Flatten([g \in 1..N |-> ShiftAll(LaneOffsets(g - 1, intents[g]))])

----------------------------------------------------------------------------
(* Lane trimmer, lines 206-270 *)

\* IntersectionConnector(raw_lane_path.along(d), raw_lane_path.direction_along(d))
Connector(lane, d) == [lane |-> lane, at |-> d]

\* Lines 218-222: the smallest distance along the lane path.
EntryDistance(intersection_points) == MinOf(intersection_points)

\* ExitDistance taking the minimum, as EntryDistance does.
ExitDistanceAsEntry(intersection_points) == MinOf(intersection_points)

\* Lines 223-227: the largest distance along the lane path.
ExitDistance(intersection_points) == MaxOf(intersection_points)

\* start_trim.max(exit_distance), line 244.
TrimStart(trim, exit_distance) == IF exit_distance > trim THEN exit_distance ELSE trim

\* TrimEnd with max in place of min.
TrimEndMax(trim, entry_distance) == IF entry_distance > trim THEN entry_distance ELSE trim

\* end_trim.min(entry_distance), line 251.
TrimEnd(trim, entry_distance) == IF entry_distance < trim THEN entry_distance ELSE trim

\* One iteration of the loop over the intersections, lines 215-253.
Visit(lane, inter, st) ==
    LET x == crossing[<<lane, inter.shape>>]
        intersection_points == x.points
    IN  IF Cardinality(intersection_points) >= 2 THEN
            LET entry_distance == EntryDistance(intersection_points)
                exit_distance == ExitDistance(intersection_points)
            IN  [incoming |-> Append(inter.incoming, Connector(lane, entry_distance)),
                 outgoing |-> Append(inter.outgoing, Connector(lane, exit_distance)),
                 start_trim |-> st.start_trim,
                 end_trim |-> st.end_trim,
                 cuts |-> Append(st.cuts, <<entry_distance, exit_distance>>)]
        ELSE IF Cardinality(intersection_points) = 1 THEN
            LET d == CHOOSE p \in intersection_points : TRUE
            IN  IF x.start_inside THEN
                    [incoming |-> inter.incoming,
                     outgoing |-> Append(inter.outgoing, Connector(lane, d)),
                     start_trim |-> TrimStart(st.start_trim, d),
                     end_trim |-> st.end_trim,
                     cuts |-> st.cuts]
                ELSE IF x.end_inside THEN
                    [incoming |-> Append(inter.incoming, Connector(lane, d)),
                     outgoing |-> inter.outgoing,
                     start_trim |-> st.start_trim,
                     end_trim |-> TrimEnd(st.end_trim, d),
                     cuts |-> st.cuts]
                ELSE
                    [incoming |-> inter.incoming, outgoing |-> inter.outgoing,
                     start_trim |-> st.start_trim, end_trim |-> st.end_trim,
                     cuts |-> st.cuts]
        ELSE
            [incoming |-> inter.incoming, outgoing |-> inter.outgoing,
             start_trim |-> st.start_trim, end_trim |-> st.end_trim,
             cuts |-> st.cuts]

\* cuts.sort_by(entry), line 259: a stable sort, so a cut comes after the cuts
\* with a smaller entry and after the earlier cuts with the same entry.
SortCuts(cs) ==
    LET place(k) == 1 + Cardinality({j \in 1..Len(cs) :
                                       \/ cs[j][1] < cs[k][1]
                                       \/ cs[j][1] = cs[k][1] /\ j < k})
    IN  [p \in 1..Len(cs) |-> cs[CHOOSE k \in 1..Len(cs) : place(k) = p]]

\* WithSentinels without the sentinel pushed at the back.
WithStartSentinelOnly(sorted, st, et, length) ==
    <<(<<-1, st>>)>> \o sorted

\* The two sentinels, lines 261-262.
WithSentinels(sorted, st, et, length) ==
    <<(<<-1, st>>)>> \o sorted \o <<(<<et, length + 1>>)>>

\* raw_lane_path.subsection(start, end): None for an empty or inverted interval.
Subsection(lane, from, to) ==
    IF from < to THEN Some([lane |-> lane, from |-> from, to |-> to]) ELSE None

\* cuts.windows(2).filter_map(...), lines 264-269.
Gaps(lane, cs) ==
    LET subs == [k \in 1..(Len(cs) - 1) |-> Subsection(lane, cs[k][2], cs[k + 1][1])]
        kept == SelectSeq(subs, LAMBDA sub : sub.some)
    IN  [k \in 1..Len(kept) |-> kept[k].value]

\* Lines 259-269 for one raw lane path.
SubPaths(lane, cs, st, et) ==
    Gaps(lane, WithSentinels(SortCuts(cs), st, et, lane_length[lane]))

----------------------------------------------------------------------------
(* Inputs of a run *)

RoadIntents == [n_lanes_forward : LaneCounts, n_lanes_backward : LaneCounts]

OrderedPairs(n) == {p \in (0..(n - 1)) \X (0..(n - 1)) : p[1] # p[2]}

Shapes(n) == {p \in (0..(n - 1)) \X (0..(n - 1)) : p[1] < p[2]}

RECURSIVE OffsetsOf(_, _)
OffsetsOf(its, g) ==
    IF g > Len(its) THEN <<>>
    ELSE LaneOffsets(g - 1, its[g]) \o OffsetsOf(its, g + 1)

Range(s) == {s[k] : k \in 1..Len(s)}

AtMostOne(S) == {{}} \cup {{x} : x \in S}

\* A plan of n crossing roads: the lanes of a road run through the regions the
\* road shares with the other roads one after the other, in the order of the
\* other roads' indices; a region spans two units of a lane's length and the
\* lanes of the roads that do not form it miss it.
PlanLaneLength(n) == 3 * n

Band(g, sh, layout) ==
    LET o == IF sh[1] = g THEN sh[2] ELSE sh[1]
        rank == Cardinality({h \in 0..(o - 1) : h # g})
    IN  <<3 * rank + 1 - layout, 3 * rank + 3 - layout>>

PlanCrossing(n, lanes, layout) ==
    [ls \in lanes \X Shapes(n) |->
        LET g == ls[1][1]
            sh == ls[2]
        IN  IF g \notin {sh[1], sh[2]}
            THEN [points |-> {}, start_inside |-> FALSE, end_inside |-> FALSE]
            ELSE LET b == Band(g, sh, layout)
                 IN  [points |-> {b[1], b[2]} \cap (0..PlanLaneLength(n)),
                      start_inside |-> b[1] < 0 /\ 0 < b[2],
                      end_inside |-> b[1] < PlanLaneLength(n) /\ PlanLaneLength(n) < b[2]]]

\* What intersect() and contains() can answer for a lane path of the given
\* length: contains() is only asked when there is exactly one crossing point.
Crossings(length) ==
    {x \in [points : SUBSET (0..length), start_inside : BOOLEAN, end_inside : BOOLEAN] :
        Cardinality(x.points) # 1 => (~x.start_inside /\ ~x.end_inside)}

----------------------------------------------------------------------------
(* calculate_prototypes as a state machine *)

\* After gesture_intent_smooth_paths is collected (line 125).
Init ==
    \E n \in 0..MaxGestures :
      \E its \in [1..n -> RoadIntents], ov \in SUBSET Shapes(n), layout \in Layouts :
        \E ce \in AtMostOne(OrderedPairs(n)), sf \in AtMostOne(Range(OffsetsOf(its, 1))) :
          /\ (ov = {} => layout = 0)
          /\ (ce = {} \/ sf = {})
          /\ intents = its
          /\ overlap = ov
          /\ clip_err = ce
          /\ shift_fail = sf
          /\ lane_length = [l \in Range(OffsetsOf(its, 1)) |-> PlanLaneLength(n)]
          /\ crossing = PlanCrossing(n, Range(OffsetsOf(its, 1)), layout)
          /\ pc = "outlines"
          /\ gesture_shapes = <<>>
          /\ i_a = 0
          /\ i_b = 0
          /\ clipped = <<>>
          /\ intersection_prototypes = <<>>
          /\ raw_lane_paths = <<>>
          /\ lane_i = 1
          /\ inter_i = 1
          /\ start_trim = 0
          /\ end_trim = 0
          /\ cuts = <<>>
          /\ lane_prototypes = <<>>
          /\ result = <<>>
          /\ points = <<>>
          /\ center_points = <<>>
          /\ end_start_directions = <<>>

\* Lines 128-154: one outline per smoothed gesture.
BuildOutlines ==
    /\ pc = "outlines"
    /\ gesture_shapes' = [g \in 1..N |-> g - 1]
    /\ i_a' = 0
    /\ i_b' = 0
    /\ pc' = "clip"
    /\ UNCHANGED <<smoother, inputs, clipped, intersection_prototypes, raw_lane_paths, lane_i,
                   inter_i, start_trim, end_trim, cuts, lane_prototypes, result>>

\* Lines 156-186: one element of the cartesian product of the outlines.
ClipPair ==
    /\ pc = "clip"
    /\ i_a < Len(gesture_shapes)
    /\ clipped' = IF i_a = i_b THEN clipped ELSE Append(clipped, <<i_a, i_b>>)
    /\ intersection_prototypes' =
         intersection_prototypes
         \o NewIntersections(ClipResult(gesture_shapes[i_a + 1], gesture_shapes[i_b + 1]))
    /\ IF i_b + 1 < Len(gesture_shapes)
       THEN i_b' = i_b + 1 /\ i_a' = i_a
       ELSE i_b' = 0 /\ i_a' = i_a + 1
    /\ UNCHANGED <<smoother, inputs, pc, gesture_shapes, raw_lane_paths, lane_i, inter_i,
                   start_trim, end_trim, cuts, lane_prototypes, result>>

\* Lines 189-204: the raw lane paths whose offset succeeded.
OffsetLanes ==
    /\ pc = "clip"
    /\ i_a >= Len(gesture_shapes)
    /\ raw_lane_paths' = RawLanePaths
    /\ lane_i' = 1
    /\ pc' = "lane"
    /\ UNCHANGED <<smoother, inputs, gesture_shapes, i_a, i_b, clipped, intersection_prototypes,
                   inter_i, start_trim, end_trim, cuts, lane_prototypes, result>>

\* Lines 206-209: the next raw lane path.
StartLane ==
    /\ pc = "lane"
    /\ lane_i <= Len(raw_lane_paths)
    /\ start_trim' = 0
    /\ end_trim' = lane_length[raw_lane_paths[lane_i]]
    /\ cuts' = <<>>
    /\ inter_i' = 1
    /\ pc' = "trim"
    /\ UNCHANGED <<smoother, inputs, gesture_shapes, i_a, i_b, clipped, intersection_prototypes,
                   raw_lane_paths, lane_i, lane_prototypes, result>>

\* Lines 211-257: the raw lane path against one intersection.
Intersect ==
    /\ pc = "trim"
    /\ inter_i <= Len(intersection_prototypes)
    /\ LET v == Visit(raw_lane_paths[lane_i], intersection_prototypes[inter_i],
                      [start_trim |-> start_trim, end_trim |-> end_trim, cuts |-> cuts])
       IN  /\ intersection_prototypes' =
                [intersection_prototypes EXCEPT ![inter_i].incoming = v.incoming,
                                                ![inter_i].outgoing = v.outgoing]
           /\ start_trim' = v.start_trim
           /\ end_trim' = v.end_trim
           /\ cuts' = v.cuts
    /\ inter_i' = inter_i + 1
    /\ UNCHANGED <<smoother, inputs, pc, gesture_shapes, i_a, i_b, clipped, raw_lane_paths,
                   lane_i, lane_prototypes, result>>

\* Lines 259-269: the sub-paths of the raw lane path between the cuts.
CutLane ==
    /\ pc = "trim"
    /\ inter_i > Len(intersection_prototypes)
    /\ lane_prototypes' =
         lane_prototypes \o SubPaths(raw_lane_paths[lane_i], cuts, start_trim, end_trim)
    /\ lane_i' = lane_i + 1
    /\ pc' = "lane"
    /\ UNCHANGED <<smoother, inputs, gesture_shapes, i_a, i_b, clipped, intersection_prototypes,
                   raw_lane_paths, inter_i, start_trim, end_trim, cuts, result>>

\* Lines 272-284: the intersection prototypes, then the lane prototypes.
Return ==
    /\ pc = "lane"
    /\ lane_i > Len(raw_lane_paths)
    /\ result' = intersection_prototypes \o lane_prototypes
    /\ pc' = "done"
    /\ UNCHANGED <<smoother, inputs, gesture_shapes, i_a, i_b, clipped, intersection_prototypes,
                   raw_lane_paths, lane_i, inter_i, start_trim, end_trim, cuts,
                   lane_prototypes>>

Next == BuildOutlines \/ ClipPair \/ OffsetLanes \/ StartLane \/ Intersect \/ CutLane \/ Return

Spec == Init /\ [][Next]_vars

----------------------------------------------------------------------------
(* The lane trimmer on one raw lane path of road 0 in a plan of three roads, *)
(* against any list of copies of its two regions and any crossings           *)

TrimLane == <<0, "forward", 0>>

TrimShapes == {<<0, 1>>, <<0, 2>>}

ShapeLists == UNION {[1..k -> TrimShapes] : k \in 0..MaxInters}

InitTrim ==
    \E shapes \in ShapeLists, cr \in [{TrimLane} \X TrimShapes -> Crossings(MaxLen)] :
        /\ intents = <<[n_lanes_forward |-> 1, n_lanes_backward |-> 0],
                       [n_lanes_forward |-> 0, n_lanes_backward |-> 0],
                       [n_lanes_forward |-> 0, n_lanes_backward |-> 0]>>
        /\ overlap = Range(shapes)
        /\ clip_err = {}
        /\ shift_fail = {}
        /\ lane_length = [l \in {TrimLane} |-> MaxLen]
        /\ crossing = cr
        /\ pc = "lane"
        /\ gesture_shapes = <<0, 1, 2>>
        /\ i_a = 3
        /\ i_b = 0
        /\ clipped = <<>>
        /\ intersection_prototypes = NewIntersections(shapes)
        /\ raw_lane_paths = <<TrimLane>>
        /\ lane_i = 1
        /\ inter_i = 1
        /\ start_trim = 0
        /\ end_trim = 0
        /\ cuts = <<>>
        /\ lane_prototypes = <<>>
        /\ result = <<>>
        /\ points = <<>>
        /\ center_points = <<>>
        /\ end_start_directions = <<>>

NextTrim == StartLane \/ Intersect \/ CutLane \/ Return

TrimSpec == InitTrim /\ [][NextTrim]_vars

----------------------------------------------------------------------------
(* Path smoother, lines 56-97.  Points have integer coordinates; a center  *)
(* point is kept doubled and a distance d is kept as 4 * d * d, so that    *)
(* midpoints, norms and their comparisons are exact.                       *)

Sq(v) == v[1] * v[1] + v[2] * v[2]

\* Twice the midpoint of a point pair, line 60.
CenterPoint(pair) == <<pair[1][1] + pair[2][1], pair[1][2] + pair[2][2]>>

\* (corner - center).norm(), as 4 * norm^2.
Norm4(corner, center2) == Sq(<<2 * corner[1] - center2[1], 2 * corner[2] - center2[2]>>)

\* ShorterDistance with max in place of min.
LongerDistance(a, b) == IF a >= b THEN a ELSE b

\* a.min(b)
ShorterDistance(a, b) == IF a <= b THEN a ELSE b

\* The body of the loop over the line segments, lines 73-96, for window i (from 0).
EndStartDirection(pts, centers, i) ==
    LET first_corner == pts[i + 1]
        second_corner == pts[i + 2]
        previous_center_point ==
            IF i < 1 THEN <<2 * first_corner[1], 2 * first_corner[2]>> ELSE centers[i]
        this_center_point == centers[i + 1]
        next_center_point ==
            IF i + 2 <= Len(centers) THEN centers[i + 2]
            ELSE <<2 * second_corner[1], 2 * second_corner[2]>>
        shorter_distance_to_first_corner ==
            ShorterDistance(Norm4(first_corner, previous_center_point),
                            Norm4(first_corner, this_center_point))
        shorter_distance_to_second_corner ==
            ShorterDistance(Norm4(second_corner, this_center_point),
                            Norm4(second_corner, next_center_point))
    IN  [end |-> [corner |-> first_corner, distance4 |-> shorter_distance_to_first_corner],
         start |-> [corner |-> second_corner, distance4 |-> shorter_distance_to_second_corner],
         direction |-> <<second_corner[1] - first_corner[1],
                         second_corner[2] - first_corner[2]>>]

Grid == (0..GridMax) \X (0..GridMax)

\* Gestures of at least 2 points (line 54) whose consecutive points differ.
GesturePoints ==
    {g \in UNION {[1..k -> Grid] : k \in 2..MaxPoints} :
        \A k \in 1..(Len(g) - 1) : g[k] # g[k + 1]}

InitSmooth ==
    /\ points \in GesturePoints
    /\ center_points = <<>>
    /\ end_start_directions = <<>>
    /\ pc = "centers"
    /\ intents = <<>>
    /\ overlap = {}
    /\ clip_err = {}
    /\ shift_fail = {}
    /\ lane_length = <<>>
    /\ crossing = <<>>
    /\ gesture_shapes = <<>>
    /\ i_a = 0
    /\ i_b = 0
    /\ clipped = <<>>
    /\ intersection_prototypes = <<>>
    /\ raw_lane_paths = <<>>
    /\ lane_i = 1
    /\ inter_i = 1
    /\ start_trim = 0
    /\ end_trim = 0
    /\ cuts = <<>>
    /\ lane_prototypes = <<>>
    /\ result = <<>>

\* Lines 56-62.
CenterPoints ==
    /\ pc = "centers"
    /\ center_points' = [k \in 1..(Len(points) - 1) |-> CenterPoint(<<points[k], points[k + 1]>>)]
    /\ pc' = "corners"
    /\ UNCHANGED <<planner, points, end_start_directions>>

\* Lines 72-97: one line segment of the gesture.
SmoothSegment ==
    /\ pc = "corners"
    /\ Len(end_start_directions) < Len(points) - 1
    /\ end_start_directions' =
         Append(end_start_directions,
                EndStartDirection(points, center_points, Len(end_start_directions)))
    /\ UNCHANGED <<planner, pc, points, center_points>>

NextSmooth == CenterPoints \/ SmoothSegment

SmoothSpec == InitSmooth /\ [][NextSmooth]_vars

----------------------------------------------------------------------------
(* Properties of the lane trimmer *)

\* A step of Intersect, and the intersection it visits.
IntersectStep == pc = "trim" /\ inter_i <= Len(intersection_prototypes) /\ inter_i' = inter_i + 1

\* A step of CutLane.
CutLaneStep == pc = "trim" /\ pc' = "lane"

\* The raw lane path that was trimmed last, once its sub-paths are emitted.
LaneIsCut == pc \in {"lane", "done"} /\ lane_i > 1

CutLanePath == raw_lane_paths[lane_i - 1]

\* The lane prototypes emitted for a raw lane path, in order.
PrototypesOf(lane) == SelectSeq(lane_prototypes, LAMBDA lp : lp.lane = lane)

CrossingOf(lane, k) == crossing[<<lane, intersection_prototypes[k].shape>>]

Smallest(S) == CHOOSE x \in S : \A y \in S : x <= y

Largest(S) == CHOOSE x \in S : \A y \in S : x >= y

\* A sub-path covers a part of the open interval (entry, exit).
Covers(lp, entry, exit) == lp.from < exit /\ entry < lp.to /\ lp.from < lp.to

C2_StartInside ==
    LaneIsCut =>
      \A k \in 1..Len(intersection_prototypes) :
        LET x == CrossingOf(CutLanePath, k)
        IN  (Cardinality(x.points) = 1 /\ x.start_inside) =>
              \A m \in 1..Len(PrototypesOf(CutLanePath)) :
                PrototypesOf(CutLanePath)[m].from >= Smallest(x.points)

\* C9: with exactly one crossing point at distance d, a start point inside gives
\* one more outgoing connector, start_trim = max(start_trim, d) and the same
\* end_trim; otherwise an end point inside gives one more incoming connector,
\* end_trim = min(end_trim, d) and the same start_trim; otherwise nothing
\* changes.  With no crossing point nothing changes.
C9_OneOrNoCrossing ==
    [][ IntersectStep =>
          LET lane == raw_lane_paths[lane_i]
              x == CrossingOf(lane, inter_i)
              old == intersection_prototypes[inter_i]
              new == intersection_prototypes'[inter_i]
              d == Smallest(x.points)
              same == /\ intersection_prototypes' = intersection_prototypes
                      /\ start_trim' = start_trim
                      /\ end_trim' = end_trim
                      /\ cuts' = cuts
          IN  /\ Cardinality(x.points) = 0 => same
              /\ (Cardinality(x.points) = 1 /\ x.start_inside) =>
                    /\ new.outgoing = Append(old.outgoing, [lane |-> lane, at |-> d])
                    /\ new.incoming = old.incoming
                    /\ start_trim' = (IF start_trim >= d THEN start_trim ELSE d)
                    /\ end_trim' = end_trim
                    /\ cuts' = cuts
              /\ (Cardinality(x.points) = 1 /\ ~x.start_inside /\ x.end_inside) =>
                    /\ new.incoming = Append(old.incoming, [lane |-> lane, at |-> d])
                    /\ new.outgoing = old.outgoing
                    /\ end_trim' = (IF end_trim <= d THEN end_trim ELSE d)
                    /\ start_trim' = start_trim
                    /\ cuts' = cuts
              /\ (Cardinality(x.points) = 1 /\ ~x.start_inside /\ ~x.end_inside) => same
      ]_vars

\* C9 witness: the lane path met an intersection that holds its end point,
\* crossed once at 1, after one that holds its start point, crossed once at 2:
\* both trims moved.
C9_Witness ==
    /\ pc = "trim"
    /\ inter_i = 3
    /\ LET x == CrossingOf(raw_lane_paths[lane_i], 1)
           y == CrossingOf(raw_lane_paths[lane_i], 2)
       IN  /\ x.points = {2} /\ x.start_inside
           /\ y.points = {1} /\ ~y.start_inside /\ y.end_inside
    /\ start_trim = 2
    /\ end_trim = 1
    /\ Len(intersection_prototypes[1].outgoing) = 1
    /\ Len(intersection_prototypes[2].incoming) = 1

\* C10: the lane prototypes of a lane path are sub-intervals of
\* [start_trim, end_trim], in ascending order and pairwise non-overlapping, and
\* none overlaps the interior of a recorded cut, also when cuts overlap or nest.
C10_DisjointAscending ==
    LaneIsCut =>
      LET lps == PrototypesOf(CutLanePath)
      IN  /\ \A m \in 1..Len(lps) :
                /\ start_trim <= lps[m].from
                /\ lps[m].from <= lps[m].to
                /\ lps[m].to <= end_trim
          /\ \A m \in 1..Len(lps) : \A o \in 1..Len(lps) :
                m < o => lps[m].to <= lps[o].from
          /\ \A m \in 1..Len(lps) : \A c \in 1..Len(cuts) :
                ~Covers(lps[m], cuts[c][1], cuts[c][2])

----------------------------------------------------------------------------
(* Trimming with a duplicated intersection polygon *)

\* The loop over the intersections for one raw lane path, from intersection k on.
RECURSIVE VisitAll(_, _, _, _)
VisitAll(lane, inters, k, st) ==
    IF k > Len(inters) THEN [inters |-> inters, st |-> st]
    ELSE LET v == Visit(lane, inters[k], st)
         IN  VisitAll(lane,
                      [inters EXCEPT ![k].incoming = v.incoming, ![k].outgoing = v.outgoing],
                      k + 1,
                      [start_trim |-> v.start_trim, end_trim |-> v.end_trim, cuts |-> v.cuts])

\* The lane trimmer on one raw lane path and a fresh list of intersections
\* with the given shapes.
TrimAgainst(lane, shapes) ==
    LET r == VisitAll(lane, NewIntersections(shapes), 1,
                      [start_trim |-> 0, end_trim |-> lane_length[lane], cuts |-> <<>>])
    IN  [inters |-> r.inters,
         lanes |-> SubPaths(lane, r.st.cuts, r.st.start_trim, r.st.end_trim)]

InsertAt(seq, pos, e) == SubSeq(seq, 1, pos) \o <<e>> \o SubSeq(seq, pos + 1, Len(seq))

SeqRange(seq) == {seq[k] : k \in 1..Len(seq)}

\* C6: a second copy of an intersection polygon, anywhere in the list, leaves
\* the set of lane prototypes of a lane path unchanged; the copy gets the
\* connectors of the original.
C6_DuplicateIdempotent ==
    (LaneIsCut /\ Len(raw_lane_paths) = 1) =>
      LET shapes == [k \in 1..Len(intersection_prototypes) |-> intersection_prototypes[k].shape]
      IN  \A k \in 1..Len(shapes) : \A pos \in 0..Len(shapes) :
            LET r == TrimAgainst(CutLanePath, InsertAt(shapes, pos, shapes[k]))
                orig == IF pos < k THEN k + 1 ELSE k
            IN  /\ SeqRange(r.lanes) = SeqRange(PrototypesOf(CutLanePath))
                /\ r.inters[pos + 1].incoming = r.inters[orig].incoming
                /\ r.inters[pos + 1].outgoing = r.inters[orig].outgoing

----------------------------------------------------------------------------
(* Properties of calculate_prototypes *)

\* The lane offsets of the plan whose shift succeeds, in order.
ShiftedOffsets == SelectSeq(OffsetsOf(intents, 1), LAMBDA l : l \notin shift_fail)

ShapesOfIntersections ==
    [k \in 1..Len(intersection_prototypes) |-> intersection_prototypes[k].shape]

CountOf(seq, e) == Cardinality({k \in 1..Len(seq) : seq[k] = e})

\* C3: when no two road outlines overlap, no intersection prototype is returned
\* and every raw lane path whose offset succeeded is returned as exactly one
\* lane prototype, from distance 0 to its full length.
C3_NoOverlap ==
    (pc = "done" /\ overlap = {}) =>
      /\ intersection_prototypes = <<>>
      /\ result = [k \in 1..Len(ShiftedOffsets) |->
                     [lane |-> ShiftedOffsets[k], from |-> 0,
                      to |-> lane_length[ShiftedOffsets[k]]]]

\* C3 witness: two roads of two lanes each that do not overlap gave four
\* whole lanes.
C3_Witness ==
    /\ pc = "done"
    /\ overlap = {}
    /\ N = 2
    /\ Len(result) = 4
    /\ \A k \in 1..4 : result[k].from = 0 /\ result[k].to = lane_length[result[k].lane]

\* C4: two road gestures of one lane each way whose outlines overlap in one
\* region that the lanes cross give exactly one intersection prototype, with 2
\* incoming and 2 outgoing connectors, and at least 4 lane prototypes.
C4_OneIntersection ==
    (/\ pc = "done"
     /\ N = 2
     /\ \A g \in 1..N : intents[g] = [n_lanes_forward |-> 1, n_lanes_backward |-> 1]
     /\ overlap = {<<0, 1>>}
     /\ clip_err = {}
     /\ shift_fail = {}
     /\ \A k \in 1..Len(raw_lane_paths) :
          Cardinality(crossing[<<raw_lane_paths[k], <<0, 1>>>>].points) >= 2)
    => /\ Len(intersection_prototypes) = 1
       /\ Len(intersection_prototypes[1].incoming) = 2
       /\ Len(intersection_prototypes[1].outgoing) = 2
       /\ Len(lane_prototypes) >= 4

\* C5: the clipper is called on exactly the ordered pairs (i, j) of outlines
\* with i # j, once each, so twice per unordered pair; no intersection
\* prototype comes from a pair with i = j, and the region of an overlapping
\* pair appears once per order in which the clipper returned it: twice.
C5_OrderedPairs ==
    /\ \A k \in 1..Len(clipped) : clipped[k][1] # clipped[k][2]
    /\ \A k \in 1..Len(intersection_prototypes) :
         intersection_prototypes[k].shape[1] # intersection_prototypes[k].shape[2]
    /\ pc \notin {"outlines", "clip"} =>
         /\ Len(clipped) = N * (N - 1)
         /\ \A p \in OrderedPairs(N) : CountOf(clipped, p) = 1
         /\ \A sh \in Shapes(N) :
              CountOf(ShapesOfIntersections, sh) =
                IF sh \in overlap
                THEN Cardinality({<<sh[1], sh[2]>>, <<sh[2], sh[1]>>} \ clip_err)
                ELSE 0
         /\ \A sh \in overlap :
              clip_err \cap {<<sh[1], sh[2]>>, <<sh[2], sh[1]>>} = {}
                => CountOf(ShapesOfIntersections, sh) = 2

\* C5 witness: two overlapping outlines were clipped in both orders and their
\* region is there twice.
C5_Witness ==
    /\ pc = "done"
    /\ N = 2
    /\ clipped = <<(<<0, 1>>), (<<1, 0>>)>>
    /\ ShapesOfIntersections = <<(<<0, 1>>), (<<0, 1>>)>>

\* The unit [c, c + 1] of a lane path lies inside the intersection with
\* crossing x.
InsideUnit(c, x) ==
    \/ Cardinality(x.points) >= 2 /\ Smallest(x.points) <= c /\ c + 1 <= Largest(x.points)
    \/ Cardinality(x.points) = 1 /\ x.start_inside /\ c + 1 <= Smallest(x.points)
    \/ Cardinality(x.points) = 1 /\ ~x.start_inside /\ x.end_inside /\ Smallest(x.points) <= c

\* The units of a lane path outside every intersection prototype.
OutsideUnits(lane) ==
    {c \in 0..(lane_length[lane] - 1) :
        \A k \in 1..Len(intersection_prototypes) : ~InsideUnit(c, CrossingOf(lane, k))}

UnitsOf(lps) == UNION {lps[m].from..(lps[m].to - 1) : m \in 1..Len(lps)}

\* C7: a recoverable failure drops only its unit.  The intersection prototypes
\* are the regions of the ordered pairs whose clip succeeded, in order; the raw
\* lane paths are the offsets whose shift succeeded, in order; the lane
\* prototypes of a lane path are its stretches outside the intersections, one
\* per stretch, a failed extraction of an empty sub-path leaving the others;
\* and the run always goes on to return a result.
C7_RecoverableFailures ==
    /\ pc # "done" => ENABLED Next
    /\ pc = "done" =>
         /\ ShapesOfIntersections =
              Flatten([k \in 1..(N * N) |->
                 LET a == (k - 1) \div N
                     b == (k - 1) % N
                 IN  IF a # b /\ <<a, b>> \notin clip_err /\ ShapeOf(a, b) \in overlap
                     THEN <<ShapeOf(a, b)>> ELSE <<>>])
         /\ raw_lane_paths = ShiftedOffsets
         /\ Len(result) = Len(intersection_prototypes) + Len(lane_prototypes)
         /\ \A l \in 1..Len(raw_lane_paths) :
              LET lane == raw_lane_paths[l]
                  lps == PrototypesOf(lane)
                  out == OutsideUnits(lane)
              IN  /\ UnitsOf(lps) = out
                  /\ Len(lps) = Cardinality({c \in out : c - 1 \notin out})
                  /\ \A m \in 1..Len(lps) : lps[m].from < lps[m].to

\* C7 witness: a run with a clipper error on one order of an overlapping pair
\* and a lane path entered at its first point (an empty first sub-path)
\* returned the region of the other order and the lane beyond it.
C7_Witness ==
    /\ pc = "done"
    /\ clip_err # {}
    /\ Len(intersection_prototypes) = 1
    /\ \E l \in 1..Len(raw_lane_paths) :
         /\ 0 \in CrossingOf(raw_lane_paths[l], 1).points
         /\ Len(PrototypesOf(raw_lane_paths[l])) = 1
    /\ Len(result) >= 2

----------------------------------------------------------------------------
(* Properties of the path smoother *)

SegmentSq(k) ==
    Sq(<<points[k + 1][1] - points[k][1], points[k + 1][2] - points[k][2]>>)

\* C8: on every line segment, end lies at most half the segment and at most
\* half the previous segment from the first corner (at it, on the first
\* segment), start lies at most half the segment and at most half the next
\* segment from the second corner (at it, on the last segment); so end is not
\* beyond start, and the two distances at a shared corner are equal.
\* (distance4 is 4 d^2, SegmentSq is the squared length: d <= length / 2 is
\* distance4 <= SegmentSq.)
C8_RoundingWithinHalf ==
    \A k \in 1..Len(end_start_directions) :
      LET e == end_start_directions[k]
          a == e.end.distance4
          b == e.start.distance4
          c == 4 * SegmentSq(k)
      IN  /\ e.end.corner = points[k]
          /\ e.start.corner = points[k + 1]
          /\ a <= SegmentSq(k)
          /\ IF k = 1 THEN a = 0 ELSE a <= SegmentSq(k - 1)
          /\ b <= SegmentSq(k)
          /\ IF k = Len(points) - 1 THEN b = 0 ELSE b <= SegmentSq(k + 1)
          /\ c - a - b >= 0
          /\ 4 * a * b <= (c - a - b) * (c - a - b)
          /\ k > 1 => a = end_start_directions[k - 1].start.distance4

\* C8 witness: a gesture of two segments of different lengths, rounded at the
\* shared corner by half the shorter one.
C8_Witness ==
    /\ Len(points) = 3
    /\ Len(end_start_directions) = 2
    /\ SegmentSq(1) > SegmentSq(2)
    /\ end_start_directions[1].start.distance4 = SegmentSq(2)
    /\ end_start_directions[2].end.distance4 = SegmentSq(2)

====
